---------------------------- MODULE Spec2Model ----------------------------
(***************************************************************************)
(* EQL (tmaxmax/eql): the lexer (src/lexer.rs), the parser that lib.rs     *)
(* wires in (src/parser/mod.rs with src/parser/operation.rs), the pipeline *)
(* lex_parse (src/lib.rs), the list and terminator routines of             *)
(* src/parser/util.rs and the operations of src/operation.rs.              *)
(*                                                                         *)
(* A source text is a sequence of characters.  A character is a one-       *)
(* element name: the ASCII characters stand for themselves, "U5B6B" is the *)
(* Han ideograph U+5B6B and "U1100" the Hangul choseong U+1100.  A Rust    *)
(* string is the sequence of its characters.                               *)
(***************************************************************************)
EXTENDS Naturals, Sequences, FiniteSets

VARIABLES source, form, pc, lexed, parsed, rendered, listed, resolved, input

\* what the routines run after lex or parse have returned
aux == <<rendered, listed, resolved, input>>

vars == <<source, form, pc, lexed, parsed, aux>>

-----------------------------------------------------------------------------
(* Characters and their Unicode properties *)

LatinChars ==
    {"A", "B", "C", "I", "M", "R", "S", "U", "X",
     "a", "d", "e", "f", "g", "h", "i", "k", "l", "m", "n", "o", "r", "s", "t",
     "v", "w", "x", "y"}

HanChars == {"U5B6B"}

JamoLChars == {"U1100"}

DigitChars == {"1"}

WhitespaceChars == {" ", "\t", "\n", "\r"}

PunctuationChars == {",", ".", "!", "?"}

\* GeneralCategory::of(c).is_letter()
IsLetterChar(c) == c \in LatinChars \cup HanChars \cup JamoLChars

\* the number of bytes of c in UTF-8
Utf8Len(c) == IF c \in HanChars \cup JamoLChars THEN 3 ELSE 1

\* the Word_Break property of c (UAX #29, table 3)
WordBreakClass(c) ==
    CASE c = "\r" -> "CR"
      [] c = "\n" -> "LF"
      [] c = " " -> "WSegSpace"
      [] c \in LatinChars \cup JamoLChars -> "ALetter"
      [] c \in DigitChars -> "Numeric"
      [] c = "." -> "MidNumLet"
      [] c = "," -> "MidNum"
      [] OTHER -> "Other"

\* the Grapheme_Cluster_Break property of c (UAX #29, table 2)
GraphemeBreakClass(c) ==
    CASE c = "\r" -> "CR"
      [] c = "\n" -> "LF"
      [] c = "\t" -> "Control"
      [] c \in JamoLChars -> "L"
      [] OTHER -> "Other"

-----------------------------------------------------------------------------
(* src/util.rs *)

\* is_whitespace: every char is whitespace
is_whitespace(s) == \A i \in 1..Len(s) : s[i] \in WhitespaceChars

\* is_alphabetic with any in place of all
is_alphabetic_any(s) == \E i \in 1..Len(s) : IsLetterChar(s[i])

\* is_alphabetic: every char is of a letter category
is_alphabetic(s) == \A i \in 1..Len(s) : IsLetterChar(s[i])

\* string_length counting chars (code points) in place of grapheme clusters
string_length_chars(word) == Len(word)

\* there is no grapheme cluster boundary between s[i] and s[i+1]
\* (GB3: CR x LF, GB6: L x L; every other pair of these characters breaks)
GraphemeJoin(s, i) ==
    LET a == GraphemeBreakClass(s[i])
        b == GraphemeBreakClass(s[i + 1])
    IN  \/ a = "CR" /\ b = "LF"
        \/ a = "L" /\ b = "L"

\* string_length: the number of extended grapheme clusters of word
string_length(word) ==
    IF Len(word) = 0 THEN 0
    ELSE 1 + Cardinality({i \in 1..(Len(word) - 1) : ~GraphemeJoin(word, i)})

-----------------------------------------------------------------------------
(* src/lexer.rs *)

Whitespace == [type |-> "Whitespace", s |-> <<" ">>]

Word(s) == [type |-> "Word", s |-> s]

Punctuation(s) == [type |-> "Punctuation", s |-> s]

Unknown(s) == [type |-> "Unknown", s |-> s]

\* Option::None of a TokenValue
NoValue == [type |-> "None", s |-> <<>>]

\* TokenValue::get
get(value) == value.s

Token(value, line, line_number, column_number) ==
    [value |-> value, line |-> line,
     line_number |-> line_number, column_number |-> column_number]

\* Option::None of a Token
NoToken == Token(NoValue, <<>>, 0, 0)

\* is_punctuation: one byte, and that byte is one of , . ! ?
is_punctuation(s) ==
    /\ Len(s) = 1
    /\ Utf8Len(s[1]) = 1
    /\ s[1] \in PunctuationChars

get_token_value(s) ==
    IF is_whitespace(s) THEN Whitespace
    ELSE IF is_punctuation(s) THEN Punctuation(s)
    ELSE IF is_alphabetic(s) THEN Word(s)
    ELSE Unknown(s)

\* get_token: Ok(token), or Err(Error(token)) when the value is Unknown
get_token(s, line_number, column_number, line) ==
    LET token == Token(get_token_value(s), line, line_number, column_number)
    IN  [ok |-> token.value.type # "Unknown", token |-> token]

\* bstr's lines_with_terminator: a line ends after its "\n" (which a "\r" may
\* precede); the last line may have no terminator; no line is empty
RECURSIVE lines_with_terminator(_)
lines_with_terminator(s) ==
    IF s = <<>> THEN <<>>
    ELSE LET lfs == {i \in 1..Len(s) : s[i] = "\n"}
         IN  IF lfs = {} THEN <<s>>
             ELSE LET k == CHOOSE i \in lfs : \A j \in lfs : i <= j
                  IN  <<SubSeq(s, 1, k)>>
                          \o lines_with_terminator(SubSeq(s, k + 1, Len(s)))

\* unicode-segmentation's word boundary rules (UAX #29): there is no word
\* boundary between line[i] and line[i+1]
WordJoin(line, i) ==
    LET a == WordBreakClass(line[i])
        b == WordBreakClass(line[i + 1])
        p == IF i > 1 THEN WordBreakClass(line[i - 1]) ELSE "sot"
        n == IF i + 2 <= Len(line) THEN WordBreakClass(line[i + 2]) ELSE "eot"
    IN  \/ a = "CR" /\ b = "LF"                                   \* WB3
        \/ a = "WSegSpace" /\ b = "WSegSpace"                     \* WB3d
        \/ a = "ALetter" /\ b = "ALetter"                         \* WB5
        \/ a = "ALetter" /\ b = "MidNumLet" /\ n = "ALetter"      \* WB6
        \/ p = "ALetter" /\ a = "MidNumLet" /\ b = "ALetter"      \* WB7
        \/ a = "Numeric" /\ b = "Numeric"                         \* WB8
        \/ a = "ALetter" /\ b = "Numeric"                         \* WB9
        \/ a = "Numeric" /\ b = "ALetter"                         \* WB10
        \/ p = "Numeric" /\ a \in {"MidNum", "MidNumLet"} /\ b = "Numeric"  \* WB11
        \/ a = "Numeric" /\ b \in {"MidNum", "MidNumLet"} /\ n = "Numeric"  \* WB12

\* the segments of line from position i on
RECURSIVE SegmentsFrom(_, _)
SegmentsFrom(line, i) ==
    IF i > Len(line) THEN <<>>
    ELSE LET ends == {j \in i..Len(line) : j = Len(line) \/ ~WordJoin(line, j)}
             e == CHOOSE j \in ends : \A k \in ends : j <= k
         IN  <<SubSeq(line, i, e)>> \o SegmentsFrom(line, e + 1)

\* split_word_bounds
split_word_bounds(line) == SegmentsFrom(line, 1)

\* the closure of lex over the segments of one line: the k-th segment on,
\* with the running column_number
RECURSIVE LexSegments(_, _, _, _, _)
LexSegments(segs, k, column_number, line, line_number) ==
    IF k > Len(segs) THEN <<>>
    ELSE <<get_token(segs[k], line_number, column_number, line)>>
             \o LexSegments(segs, k + 1,
                            column_number + string_length(segs[k]),
                            line, line_number)

\* lex numbering the lines from 0: line_number in place of line_number + 1
RECURSIVE LexLinesFromZero(_, _)
LexLinesFromZero(lines, k) ==
    IF k > Len(lines) THEN <<>>
    ELSE LexSegments(split_word_bounds(lines[k]), 1, 1, lines[k], k - 1)
             \o LexLinesFromZero(lines, k + 1)

\* the flat_map of lex over the lines from the k-th on
RECURSIVE LexLines(_, _)
LexLines(lines, k) ==
    IF k > Len(lines) THEN <<>>
    ELSE LexSegments(split_word_bounds(lines[k]), 1, 1, lines[k], k)
             \o LexLines(lines, k + 1)

LexOk(tokens) == [tag |-> "Ok", tokens |-> tokens, error |-> NoToken]

LexErr(token) == [tag |-> "Err", tokens |-> <<>>, error |-> token]

\* lex: collect() keeps the tokens, or the first Err
lex(s) ==
    LET results == LexLines(lines_with_terminator(s), 1)
        bad == {k \in 1..Len(results) : ~results[k].ok}
    IN  IF bad = {} THEN LexOk([k \in 1..Len(results) |-> results[k].token])
        ELSE LexErr(results[CHOOSE k \in bad : \A j \in bad : k <= j].token)

-----------------------------------------------------------------------------
(* Rust slices: indices count from 0, and a range outside the slice panics *)

\* tokens[i]
At(tokens, i) == tokens[i + 1]

\* &tokens[from..]
SliceFrom(tokens, from) == SubSeq(tokens, from + 1, Len(tokens))

\* &tokens[from..=to]
SliceIncl(tokens, from, to) == SubSeq(tokens, from + 1, to + 1)

\* whether &tokens[from..=to] is in range
SliceInclOk(tokens, from, to) == from <= to + 1 /\ to < Len(tokens)

\* [T]::contains
contains(values, v) == \E k \in 1..Len(values) : values[k] = v

min(a, b) == IF a <= b THEN a ELSE b

\* Option<usize>
None == [some |-> FALSE, v |-> 0]

Some(v) == [some |-> TRUE, v |-> v]

\* Option::unwrap_or_default
unwrap_or_default(o) == IF o.some THEN o.v ELSE 0

-----------------------------------------------------------------------------
(* src/parser/mod.rs: the constants *)

KEYWORD_ADD == Word(<<"A", "d", "d">>)

KEYWORD_CREATE == Word(<<"C", "r", "e", "a", "t", "e">>)

KEYWORD_REMOVE == Word(<<"R", "e", "m", "o", "v", "e">>)

KEYWORD_SHOW == Word(<<"S", "h", "o", "w">>)

KEYWORDS == <<KEYWORD_ADD, KEYWORD_CREATE, KEYWORD_REMOVE, KEYWORD_SHOW>>

LINKER_AND == Word(<<"a", "n", "d">>)

LINKER_TO == Word(<<"t", "o">>)

LINKER_FROM == Word(<<"f", "r", "o", "m">>)

RESERVED ==
    <<KEYWORD_ADD, KEYWORD_CREATE, KEYWORD_REMOVE, KEYWORD_SHOW,
      LINKER_AND, LINKER_TO, LINKER_FROM>>

SEPARATOR == Punctuation(<<".">>)

SEPARATOR_OVERWRITE == Punctuation(<<"!">>)

SEPARATOR_FAIL_SILENTLY == Punctuation(<<"?">>)

SEPARATOR_VALUES == Punctuation(<<",">>)

TERMINATORS == <<SEPARATOR, SEPARATOR_OVERWRITE, SEPARATOR_FAIL_SILENTLY>>

-----------------------------------------------------------------------------
(* src/parser/operation.rs *)

\* Option<bool> and Option<Vec<String>>
NoneBool == [some |-> FALSE, v |-> FALSE]

NoneList == [some |-> FALSE, v |-> <<>>]

\* Operation::unknown
OperationUnknown ==
    [kind |-> "Unknown", departments |-> NoneList, fail_silently |-> NoneBool,
     names |-> NoneList, overwrite |-> NoneBool]

\* Operation::add with the two lists taken in the other order
OperationAddSwapped(departments, fail_silently, names, overwrite) ==
    [kind |-> "Add", departments |-> Some(names),
     fail_silently |-> Some(fail_silently),
     names |-> Some(departments), overwrite |-> Some(overwrite)]

\* Operation::add
OperationAdd(departments, fail_silently, names, overwrite) ==
    [kind |-> "Add", departments |-> Some(departments),
     fail_silently |-> Some(fail_silently),
     names |-> Some(names), overwrite |-> Some(overwrite)]

\* Operation::create
OperationCreate(departments, fail_silently, overwrite) ==
    [kind |-> "Create", departments |-> Some(departments),
     fail_silently |-> Some(fail_silently),
     names |-> NoneList, overwrite |-> Some(overwrite)]

\* Operation::remove
OperationRemove(departments, fail_silently, names) ==
    [kind |-> "Remove", departments |-> Some(departments),
     fail_silently |-> Some(fail_silently),
     names |-> Some(names), overwrite |-> NoneBool]

\* Operation::show
OperationShow(departments, fail_silently) ==
    [kind |-> "Show", departments |-> Some(departments),
     fail_silently |-> Some(fail_silently),
     names |-> NoneList, overwrite |-> NoneBool]

\* Option<Operation>
NoOperation == [some |-> FALSE, v |-> OperationUnknown]

\* Operation::set_fail_silently
set_fail_silently(op, fail_silently) ==
    IF op.fail_silently.some
    THEN Some([op EXCEPT !.fail_silently = Some(fail_silently)])
    ELSE NoOperation

\* Operation::set_overwrite
set_overwrite(op, overwrite) ==
    IF op.overwrite.some
    THEN Some([op EXCEPT !.overwrite = Some(overwrite)])
    ELSE NoOperation

-----------------------------------------------------------------------------
(* src/parser/error.rs *)

NoDetails == [text |-> "", name |-> "", value |-> NoValue]

\* Error::new
Error(operation_kind, operation_token, unexpected_token, expected_tokens, details) ==
    [operation_kind |-> operation_kind, operation_token |-> operation_token,
     unexpected_token |-> unexpected_token,
     expected_tokens |-> expected_tokens, details |-> details]

NoError == Error("Unknown", NoToken, NoToken, <<>>, NoDetails)

-----------------------------------------------------------------------------
(* src/parser/mod.rs *)

\* Result<Operation, Error>, or the panic that ended the call
OpOk(op) == [tag |-> "Ok", op |-> op, error |-> NoError, panic |-> ""]

OpErr(e) == [tag |-> "Err", op |-> OperationUnknown, error |-> e, panic |-> ""]

OpPanic(msg) == [tag |-> "Panic", op |-> OperationUnknown, error |-> NoError, panic |-> msg]

\* the closure get_terminators of handle_terminator; it panics on Unknown
get_terminators(op_kind) ==
    IF op_kind \in {"Create", "Add"}
    THEN <<SEPARATOR_OVERWRITE, SEPARATOR_FAIL_SILENTLY>>
    ELSE <<SEPARATOR_FAIL_SILENTLY>>

handle_terminator(tokens, op, op_token) ==
    IF Len(tokens) = 0
    THEN IF op.kind = "Unknown"
         THEN OpPanic("Unknown operations should not be passed to handle_terminator")
         ELSE OpErr(Error(op.kind, op_token, NoToken, get_terminators(op.kind),
                          [text |-> "You didn't terminate your operation!",
                           name |-> "", value |-> NoValue]))
    ELSE IF Len(tokens) = 1
    THEN LET value == At(tokens, 0).value
             set == IF value = SEPARATOR_OVERWRITE THEN set_overwrite(op, TRUE)
                    ELSE IF value = SEPARATOR_FAIL_SILENTLY
                    THEN set_fail_silently(op, TRUE)
                    ELSE Some(op)
         IN  IF set.some THEN OpOk(set.v)
             ELSE IF op.kind = "Unknown"
             THEN OpPanic("Unknown operations should not be passed to handle_terminator")
             ELSE OpErr(Error(op.kind, op_token, At(tokens, 0),
                              get_terminators(op.kind),
                              [text |-> "{} is not a valid terminator for the operation",
                               name |-> "", value |-> value]))
    ELSE OpPanic("Invalid input for handle_terminator, expected 1 or no tokens")

\* Result<(&[Token], usize, bool), usize>, or the panic of an out-of-range slice
GleOk(elem_tokens, incr, is_terminator) ==
    [tag |-> "Ok", tokens |-> elem_tokens, incr |-> incr, is_terminator |-> is_terminator]

GleErr(incr) == [tag |-> "Err", tokens |-> <<>>, incr |-> incr, is_terminator |-> FALSE]

GlePanic == [tag |-> "Panic", tokens |-> <<>>, incr |-> 0, is_terminator |-> FALSE]

\* the value get_list_element_tokens returns on reaching index i
GleReturn(tokens, first_word_index, last_word_index, i, is_terminator) ==
    IF SliceInclOk(tokens, unwrap_or_default(first_word_index), last_word_index)
    THEN GleOk(SliceIncl(tokens, unwrap_or_default(first_word_index), last_word_index),
               i, is_terminator)
    ELSE GlePanic

\* the for loop of get_list_element_tokens from index i on
RECURSIVE GleLoop(_, _, _, _, _)
GleLoop(tokens, terminators, i, last_word_index, first_word_index) ==
    IF i >= Len(tokens)
    THEN GleReturn(tokens, first_word_index, last_word_index, Len(tokens), FALSE)
    ELSE LET value == At(tokens, i).value
         IN  IF value = SEPARATOR_VALUES \/ value = LINKER_AND
             THEN GleReturn(tokens, first_word_index, last_word_index, i, FALSE)
             ELSE IF contains(terminators, value)
             THEN GleReturn(tokens, first_word_index, last_word_index, i, TRUE)
             ELSE IF value = Whitespace
             THEN GleLoop(tokens, terminators, i + 1, last_word_index, first_word_index)
             ELSE IF value.type = "Word"
             THEN IF first_word_index.some
                  THEN GleLoop(tokens, terminators, i + 1, i, first_word_index)
                  ELSE GleLoop(tokens, terminators, i + 1, last_word_index, Some(i))
             ELSE GleErr(i)

get_list_element_tokens(tokens, terminators) ==
    GleLoop(tokens, terminators, 0, 0, None)

\* Vec::dedup: of consecutive equal tokens only the first stays
RECURSIVE dedup(_)
dedup(v) ==
    IF Len(v) <= 1 THEN v
    ELSE LET rest == dedup(Tail(v))
         IN  IF Head(v) = Head(rest) THEN rest ELSE <<Head(v)>> \o rest

\* the concatenation of the tokens' values
RECURSIVE ConcatValues(_)
ConcatValues(v) ==
    IF v = <<>> THEN <<>> ELSE get(Head(v).value) \o ConcatValues(Tail(v))

get_string_from_tokens(tokens) == ConcatValues(dedup(tokens))

\* Result<(Vec<String>, usize), (Token, bool)>, or the panic that ended the call
ListOk(elements, i) ==
    [tag |-> "Ok", elements |-> elements, i |-> i,
     token |-> NoToken, is_empty |-> FALSE, panic |-> ""]

ListErr(token, is_empty) ==
    [tag |-> "Err", elements |-> <<>>, i |-> 0,
     token |-> token, is_empty |-> is_empty, panic |-> ""]

ListPanic(msg) ==
    [tag |-> "Panic", elements |-> <<>>, i |-> 0,
     token |-> NoToken, is_empty |-> FALSE, panic |-> msg]

\* parse_list after its loop, without the branch for an empty result
ParseListEnd_any(tokens, i, elements) ==
    ListOk([k \in 1..Len(elements) |-> get_string_from_tokens(elements[k])], i)

\* parse_list after its loop.  tokens.len() - 1 on an empty slice overflows:
\* with overflow checks the subtraction panics, without them it wraps and
\* tokens[0] is out of bounds, so either build panics
ParseListEnd(tokens, i, elements) ==
    LET ret == [k \in 1..Len(elements) |-> get_string_from_tokens(elements[k])]
    IN  IF Len(ret) = 0
        THEN IF Len(tokens) = 0
             THEN ListPanic("tokens.len() - 1 on an empty slice")
             ELSE ListErr(At(tokens, min(i, Len(tokens) - 1)), TRUE)
        ELSE ListOk(ret, i)

\* the while loop of parse_list from index i on
RECURSIVE ParseListLoop(_, _, _, _)
ParseListLoop(tokens, terminators, i, elements) ==
    IF i >= Len(tokens) THEN ParseListEnd(tokens, i, elements)
    ELSE LET token == At(tokens, i)
         IN  IF token.value = Whitespace
             THEN ParseListLoop(tokens, terminators, i + 1, elements)
             ELSE IF contains(terminators, token.value)
             THEN ParseListEnd(tokens, i, elements)
             ELSE IF token.value.type = "Word"
             THEN LET r == get_list_element_tokens(SliceFrom(tokens, i), terminators)
                  IN  IF r.tag = "Ok"
                      THEN IF r.is_terminator
                           THEN ParseListLoop(tokens, terminators, i + r.incr,
                                              Append(elements, r.tokens))
                           ELSE ParseListLoop(tokens, terminators, i + r.incr + 1,
                                              Append(elements, r.tokens))
                      ELSE IF r.tag = "Err"
                      THEN ParseListLoop(tokens, terminators, i + r.incr, elements)
                      ELSE ListPanic("slice index out of range in get_list_element_tokens")
             ELSE ListErr(token, Len(elements) = 0)

parse_list(tokens, terminators) == ParseListLoop(tokens, terminators, 0, <<>>)

EXPECTED == <<Whitespace, Word(<<>>)>>

\* the closure get_list_error_handler returns, applied to (t, is_empty)
get_list_error_handler(op_kind, op_token, terminators, list_elements_name, t, is_empty) ==
    IF is_empty
    THEN Error(op_kind, op_token, t, EXPECTED,
               [text |-> "You must specify at least one {} before list terminator {}",
                name |-> list_elements_name, value |-> t.value])
    ELSE Error(op_kind, op_token, t, EXPECTED \o terminators,
               IF contains(RESERVED, t.value)
               THEN [text |-> "Can't use {} in lists, it's reserved!",
                     name |-> "", value |-> t.value]
               ELSE NoDetails)

parse_add(op_token, tokens) ==
    LET first == parse_list(tokens, <<LINKER_TO>>)
    IN  IF first.tag = "Panic" THEN OpPanic(first.panic)
        ELSE IF first.tag = "Err"
        THEN OpErr(get_list_error_handler("Add", op_token, <<LINKER_TO>>, "name",
                                          first.token, first.is_empty))
        ELSE IF first.i + 1 > Len(tokens)
        THEN OpPanic("range start index out of range for slice in parse_add")
        ELSE LET second == parse_list(SliceFrom(tokens, first.i + 1), TERMINATORS)
             IN  IF second.tag = "Panic" THEN OpPanic(second.panic)
                 ELSE IF second.tag = "Err"
                 THEN OpErr(get_list_error_handler("Add", op_token, TERMINATORS,
                                                   "department",
                                                   second.token, second.is_empty))
                 ELSE handle_terminator(
                          SliceFrom(tokens, min(first.i + second.i + 1, Len(tokens))),
                          OperationAdd(second.elements, FALSE, first.elements, FALSE),
                          op_token)

\* get_statement_slice without the return at the first terminator
get_statement_slice_all(tokens) == tokens

get_statement_slice(tokens) ==
    LET ends == {i \in 0..(Len(tokens) - 1) : contains(TERMINATORS, At(tokens, i).value)}
    IN  IF ends = {} THEN tokens
        ELSE SliceIncl(tokens, 0, CHOOSE i \in ends : \A j \in ends : i <= j)

\* Result<Vec<Operation>, Error>, or the panic that ended the call
ParseOk(ops) == [tag |-> "Ok", ops |-> ops, error |-> NoError, panic |-> ""]

ParseErr(e) == [tag |-> "Err", ops |-> <<>>, error |-> e, panic |-> ""]

ParsePanic(msg) == [tag |-> "Panic", ops |-> <<>>, error |-> NoError, panic |-> msg]

\* the while loop of parse from index i on
RECURSIVE ParseLoop(_, _, _)
ParseLoop(tokens, i, res) ==
    IF i >= Len(tokens) THEN ParseOk(res)
    ELSE LET token == At(tokens, i)
         IN  IF token.value = Whitespace THEN ParseLoop(tokens, i + 1, res)
             ELSE IF token.value = KEYWORD_ADD
             THEN LET add_tokens == get_statement_slice(SliceFrom(tokens, i + 1))
                      r == parse_add(token, add_tokens)
                  IN  IF r.tag = "Ok"
                      THEN ParseLoop(tokens, i + Len(add_tokens) + 1, Append(res, r.op))
                      ELSE IF r.tag = "Err" THEN ParseErr(r.error)
                      ELSE ParsePanic(r.panic)
             ELSE ParseErr(Error("Unknown", token, token, KEYWORDS,
                                 [text |-> "You must input an operation!",
                                  name |-> "", value |-> NoValue]))

\* parse without the Whitespace arm: whitespace falls to the catch-all arm
parse_no_skip(tokens) ==
    IF Len(tokens) > 0 /\ At(tokens, 0).value = Whitespace
    THEN ParseErr(Error("Unknown", At(tokens, 0), At(tokens, 0), KEYWORDS,
                        [text |-> "You must input an operation!",
                         name |-> "", value |-> NoValue]))
    ELSE ParseLoop(tokens, 0, <<>>)

parse(tokens) == ParseLoop(tokens, 0, <<>>)

-----------------------------------------------------------------------------
(* src/util.rs: fmt_list; src/parser/operation.rs: the rendering of an     *)
(* operation                                                               *)

\* [String]::join
RECURSIVE join(_, _)
join(elems, sep) ==
    IF Len(elems) = 0 THEN <<>>
    ELSE IF Len(elems) = 1 THEN elems[1]
    ELSE elems[1] \o sep \o join(Tail(elems), sep)

\* fmt_list with no comma before the linker, however many elements go before
fmt_list_no_comma(elems, sep, linker) ==
    IF Len(elems) = 0 THEN <<>>
    ELSE IF Len(elems) = 1 THEN elems[1]
    ELSE join(SubSeq(elems, 1, Len(elems) - 1), sep)
             \o <<" ">> \o linker \o <<" ">> \o elems[Len(elems)]

\* fmt_list: "a", "a and b", "a, b, and c"
fmt_list(elems, sep, linker) ==
    IF Len(elems) = 0 THEN <<>>
    ELSE LET rest == SubSeq(elems, 1, Len(elems) - 1)
             last == elems[Len(elems)]
         IN  IF Len(rest) = 0 THEN last
             ELSE join(rest, sep)
                      \o (IF Len(rest) = 1 THEN <<>> ELSE <<",">>)
                      \o <<" ">> \o linker \o <<" ">> \o last

\* Display of OperationKind
OperationKindText(kind) ==
    CASE kind = "Unknown" -> <<"U", "n", "k", "n", "o", "w", "n">>
      [] kind = "Create" -> <<"C", "r", "e", "a", "t", "e">>
      [] kind = "Remove" -> <<"R", "e", "m", "o", "v", "e">>
      [] kind = "Add" -> <<"A", "d", "d">>
      [] kind = "Show" -> <<"S", "h", "o", "w">>

\* fmt_modifier of parser/operation.rs
fmt_modifier(op) ==
    IF op.fail_silently.some /\ op.fail_silently.v
    THEN <<" ", "(", "f", "a", "i", "l", " ",
           "s", "i", "l", "e", "n", "t", "l", "y", ")">>
    ELSE IF op.overwrite.some /\ op.overwrite.v
    THEN <<" ", "(", "o", "v", "e", "r", "w", "r", "i", "t", "e", " ", "i", "f", " ",
           "e", "x", "i", "s", "t", "i", "n", "g", ")">>
    ELSE <<>>

fmt_names(elems, linker) ==
    LET names == fmt_list(elems, <<",", " ">>, <<"a", "n", "d">>)
    IN  IF names = <<>> THEN names ELSE <<" ">> \o names \o <<" ">> \o linker

\* impl fmt::Display for Operation
Display(op) ==
    IF op.kind = "Unknown" THEN OperationKindText(op.kind)
    ELSE LET statement ==
                 IF op.kind \in {"Create", "Show"} THEN OperationKindText(op.kind)
                 ELSE OperationKindText(op.kind)
                          \o fmt_names(op.names.v,
                                       IF op.kind = "Add" THEN <<"t", "o">>
                                       ELSE <<"f", "r", "o", "m">>)
         IN  statement \o <<" ">>
                 \o fmt_list(op.departments.v, <<",", " ">>, <<"a", "n", "d">>)
                 \o fmt_modifier(op)

-----------------------------------------------------------------------------
(* src/operation.rs: the operations with a Modifier *)

\* enum Modifier
Modifier == {"FailSilently", "Overwrite", "None"}

\* Operation::Unknown
Operation_Unknown == [kind |-> "Unknown", names |-> <<>>, departments |-> <<>>,
                      modifier |-> "None"]

\* OperationAdd::new
OperationAdd_new(departments, names, modifier) ==
    [kind |-> "Add", names |-> names, departments |-> departments,
     modifier |-> modifier]

\* OperationCreate::new
OperationCreate_new(departments, modifier) ==
    [kind |-> "Create", names |-> <<>>, departments |-> departments,
     modifier |-> modifier]

\* OperationRemove::new
OperationRemove_new(departments, names, fail_silently) ==
    [kind |-> "Remove", names |-> names, departments |-> departments,
     modifier |-> IF fail_silently THEN "FailSilently" ELSE "None"]

\* OperationShow::new
OperationShow_new(departments, fail_silently) ==
    [kind |-> "Show", names |-> <<>>, departments |-> departments,
     modifier |-> IF fail_silently THEN "FailSilently" ELSE "None"]

\* Option<Operation>::None
NoModified == [some |-> FALSE, v |-> Operation_Unknown]

\* OperationAdd::set_modifier that takes FailSilently for no modifier of an Add
OperationAdd_set_modifier_strict(op, modifier) ==
    IF modifier \in {"Overwrite", "None"}
    THEN Some([op EXCEPT !.modifier = modifier])
    ELSE NoModified

\* OperationAdd::set_modifier
OperationAdd_set_modifier(op, modifier) == Some([op EXCEPT !.modifier = modifier])

\* OperationCreate::set_modifier
OperationCreate_set_modifier(op, modifier) == Some([op EXCEPT !.modifier = modifier])

\* OperationRemove::set_modifier
OperationRemove_set_modifier(op, modifier) ==
    IF modifier \in {"FailSilently", "None"}
    THEN Some([op EXCEPT !.modifier = modifier])
    ELSE NoModified

\* OperationShow::set_modifier that takes every modifier
OperationShow_set_modifier_any(op, modifier) == Some([op EXCEPT !.modifier = modifier])

\* OperationShow::set_modifier
OperationShow_set_modifier(op, modifier) ==
    IF modifier \in {"FailSilently", "None"}
    THEN Some([op EXCEPT !.modifier = modifier])
    ELSE NoModified

\* Operation::modifier
modifier(op) == op.modifier

\* Operation::set_modifier
set_modifier(op, m) ==
    CASE op.kind = "Add" -> OperationAdd_set_modifier(op, m)
      [] op.kind = "Create" -> OperationCreate_set_modifier(op, m)
      [] op.kind = "Remove" -> OperationRemove_set_modifier(op, m)
      [] op.kind = "Show" -> OperationShow_set_modifier(op, m)
      [] OTHER -> NoModified

\* Operation::keyword
keyword(op) == op.kind

\* fmt_list of operation.rs
operation_fmt_list(list) == fmt_list(list, <<",", " ">>, <<"a", "n", "d">>)

\* Display of Modifier
ModifierText(m) ==
    CASE m = "FailSilently" ->
             <<"f", "a", "i", "l", " ", "s", "i", "l", "e", "n", "t", "l", "y">>
      [] m = "Overwrite" ->
             <<"o", "v", "e", "r", "w", "r", "i", "t", "e", " ", "i", "f", " ",
               "e", "x", "i", "s", "t", "i", "n", "g">>
      [] m = "None" -> <<>>

\* fmt_modifier of operation.rs
operation_fmt_modifier(m) ==
    LET t == ModifierText(m)
    IN  IF t = <<>> THEN t ELSE <<" ", "(">> \o t \o <<")">>

\* impl fmt::Display for Operation and for the four operations, operation.rs
operation_Display(op) ==
    CASE op.kind = "Unknown" -> OperationKindText(keyword(op))
      [] op.kind = "Add" ->
             OperationKindText("Add") \o <<" ">> \o operation_fmt_list(op.names)
                 \o <<" ", "t", "o", " ">> \o operation_fmt_list(op.departments)
                 \o operation_fmt_modifier(op.modifier)
      [] op.kind = "Remove" ->
             LET names == operation_fmt_list(op.names)
             IN  OperationKindText("Remove")
                     \o (IF names = <<>> THEN <<>>
                         ELSE <<" ">> \o names \o <<" ", "f", "r", "o", "m">>)
                     \o <<" ">> \o operation_fmt_list(op.departments)
                     \o operation_fmt_modifier(op.modifier)
      [] op.kind \in {"Create", "Show"} ->
             OperationKindText(op.kind) \o <<" ">>
                 \o operation_fmt_list(op.departments)
                 \o operation_fmt_modifier(op.modifier)

-----------------------------------------------------------------------------
(* src/parser/util.rs: handle_terminator *)

\* the closure get_terminators of handle_terminator; it panics on Unknown
util_get_terminators(o) ==
    IF o.kind \in {"Create", "Add"}
    THEN <<SEPARATOR, SEPARATOR_OVERWRITE, SEPARATOR_FAIL_SILENTLY>>
    ELSE <<SEPARATOR, SEPARATOR_FAIL_SILENTLY>>

util_handle_terminator(tokens, op, op_token) ==
    IF Len(tokens) > 1 THEN OpPanic("internal error: entered unreachable code")
    ELSE IF op.kind = "Unknown"
    THEN OpPanic("Unknown operations should not be passed to handle_terminator")
    ELSE IF Len(tokens) = 0
    THEN OpErr(Error(keyword(op), op_token, NoToken, util_get_terminators(op),
                     [text |-> "You didn't terminate your operation!",
                      name |-> "", value |-> NoValue]))
    ELSE LET value == At(tokens, 0).value
             set == IF value = SEPARATOR_OVERWRITE THEN set_modifier(op, "Overwrite")
                    ELSE IF value = SEPARATOR_FAIL_SILENTLY
                    THEN set_modifier(op, "FailSilently")
                    ELSE Some(op)
         IN  IF set.some THEN OpOk(set.v)
             ELSE OpErr(Error(keyword(op), op_token, At(tokens, 0),
                              util_get_terminators(op),
                              [text |-> "{} is not a valid modifier for the operation",
                               name |-> "", value |-> value]))

-----------------------------------------------------------------------------
(* src/parser/util.rs: parse_list and its error handler *)

\* get_list_element_tokens of util.rs: ListElement { tokens, consumed_count,
\* is_last_consumed_terminator }, the three things mod.rs returns as a tuple
util_get_list_element_tokens(tokens, terminators) ==
    GleLoop(tokens, terminators, 0, 0, None)

util_get_string_from_tokens(tokens) == ConcatValues(dedup(tokens))

\* Result<(Vec<String>, usize), ParseListError>, or the panic that ended the call
UtilListOk(elements, i) ==
    [tag |-> "Ok", elements |-> elements, i |-> i,
     unexpected_token |-> NoToken, has_parsed_elements |-> FALSE]

ParseListError(unexpected_token, has_parsed_elements) ==
    [tag |-> "Err", elements |-> <<>>, i |-> 0,
     unexpected_token |-> unexpected_token,
     has_parsed_elements |-> has_parsed_elements]

UtilListPanic ==
    [tag |-> "Panic", elements |-> <<>>, i |-> 0,
     unexpected_token |-> NoToken, has_parsed_elements |-> FALSE]

\* tokens.get(i).cloned()
get_token_at(tokens, i) == IF i < Len(tokens) THEN At(tokens, i) ELSE NoToken

\* usize::checked_sub(1).unwrap_or_default()
checked_sub_1(n) == IF n >= 1 THEN n - 1 ELSE 0

\* parse_list after its loop
UtilParseListEnd(tokens, i, elements) ==
    LET ret == [k \in 1..Len(elements) |-> util_get_string_from_tokens(elements[k])]
    IN  IF Len(ret) = 0
        THEN ParseListError(get_token_at(tokens, min(i, checked_sub_1(Len(tokens)))),
                            FALSE)
        ELSE IF i > Len(tokens)
        THEN ParseListError(get_token_at(tokens, checked_sub_1(Len(tokens))), TRUE)
        ELSE UtilListOk(ret, i)

\* the while loop of parse_list from index i on
RECURSIVE UtilParseListLoop(_, _, _, _, _)
UtilParseListLoop(tokens, terminators, i, elements, last_linker) ==
    IF i >= Len(tokens) THEN UtilParseListEnd(tokens, i, elements)
    ELSE LET token == At(tokens, i)
         IN  IF token.value = Whitespace
             THEN UtilParseListLoop(tokens, terminators, i + 1, elements, last_linker)
             ELSE IF contains(terminators, token.value)
             THEN UtilParseListEnd(tokens, i, elements)
             ELSE IF token.value = LINKER_AND
             THEN IF Len(elements) = 0 THEN UtilParseListEnd(tokens, i, elements)
                  ELSE IF last_linker = SEPARATOR_VALUES
                  THEN UtilParseListLoop(tokens, terminators, i + 1, elements,
                                         last_linker)
                  ELSE ParseListError(token, TRUE)
             ELSE IF token.value.type = "Word"
             THEN LET elem == util_get_list_element_tokens(SliceFrom(tokens, i),
                                                           terminators)
                      j == i + elem.incr
                  IN  IF elem.tag = "Ok"
                      THEN IF elem.is_terminator
                           THEN UtilParseListLoop(tokens, terminators, j,
                                                  Append(elements, elem.tokens),
                                                  last_linker)
                           ELSE UtilParseListLoop(tokens, terminators, j + 1,
                                                  Append(elements, elem.tokens),
                                                  get_token_at(tokens, j).value)
                      ELSE IF elem.tag = "Err"
                      THEN UtilParseListLoop(tokens, terminators, j, elements,
                                             last_linker)
                      ELSE UtilListPanic
             ELSE ParseListError(token, Len(elements) # 0)

\* parse_list of util.rs
util_parse_list(tokens, terminators) ==
    UtilParseListLoop(tokens, terminators, 0, <<>>, NoValue)

\* the closure get_parse_list_error_handler_generator(op_keyword, op_token)
\* returns for (terminators, name), applied to the ParseListError e
get_parse_list_error_handler_generator(op_keyword, op_token, terminators, name, e) ==
    LET v == e.unexpected_token.value
    IN  IF e.has_parsed_elements
        THEN Error(op_keyword, op_token, e.unexpected_token, EXPECTED \o terminators,
                   IF v # NoValue /\ contains(RESERVED, v)
                   THEN [text |-> "Can't use {} in lists, it's reserved!",
                         name |-> "", value |-> v]
                   ELSE [text |-> "The {} list you entered is invalid!",
                         name |-> name, value |-> NoValue])
        ELSE Error(op_keyword, op_token, e.unexpected_token, EXPECTED,
                   [text |-> IF v = NoValue THEN "You must specify at least one {}"
                             ELSE IF contains(terminators, v)
                             THEN "You must specify at least one {} before list terminator {}"
                             ELSE IF contains(TERMINATORS, v)
                             THEN "You must specify at least one {} before operation terminator {}"
                             ELSE "You must specify at least one {} before list element separator {}",
                    name |-> name, value |-> v])

\* get_operation_tokens: up to and with the first terminator, or everything
get_operation_tokens(tokens) ==
    LET ends == {i \in 0..(Len(tokens) - 1) : contains(TERMINATORS, At(tokens, i).value)}
    IN  IF ends = {} THEN tokens
        ELSE SliceIncl(tokens, 0, CHOOSE i \in ends : \A j \in ends : i <= j)

-----------------------------------------------------------------------------
(* The inputs.  form says how the source text was written; the program sees *)
(* source only.                                                             *)

\* the longest source text drawn character by character
MaxSourceLen == 4

\* the most names, and the most departments, of a statement
MaxNames == 3

MaxDepartments == 2

\* the most items of a source text drawn item by item
MaxItems == 4

\* the most statements of a source text drawn statement by statement
MaxStatements == 2

\* the characters of the source texts drawn character by character
SourceChars == {"a", "U5B6B", "U1100", " ", "\t", "\n", "\r", ",", ".", "1"}

SeqsUpTo(S, n) == UNION {[1..k -> S] : k \in 0..n}

SP == <<" ">>

\* the names and departments the statements use: one word, two words
ElementPool == {<<"M">>, <<"B", " ", "I">>}

\* a list of 1..n elements, and the separator after each but the last
Lists(n) ==
    UNION {[elements : [1..k -> ElementPool], seps : [1..(k - 1) -> {",", "and"}]]
           : k \in 1..n}

EmptyList == [elements |-> <<>>, seps |-> <<>>]

SepText(sep) == IF sep = "," THEN <<",", " ">> ELSE SP \o get(LINKER_AND) \o SP

\* the text of a list from its k-th element on
RECURSIVE ListTextFrom(_, _)
ListTextFrom(list, k) ==
    IF k > Len(list.elements) THEN <<>>
    ELSE list.elements[k]
             \o (IF k < Len(list.elements) THEN SepText(list.seps[k]) ELSE <<>>)
             \o ListTextFrom(list, k + 1)

ListText(list) == ListTextFrom(list, 1)

NoStatement ==
    [kind |-> "", names |-> EmptyList, departments |-> EmptyList, terminator |-> ""]

\* <Keyword> [<names> to|from] <departments><terminator>
StatementText(st) ==
    get(CASE st.kind = "Add" -> KEYWORD_ADD
          [] st.kind = "Create" -> KEYWORD_CREATE
          [] st.kind = "Remove" -> KEYWORD_REMOVE
          [] st.kind = "Show" -> KEYWORD_SHOW)
        \o SP
        \o (IF st.names.elements = <<>> THEN <<>>
            ELSE ListText(st.names) \o SP
                     \o get(IF st.kind = "Add" THEN LINKER_TO ELSE LINKER_FROM) \o SP)
        \o ListText(st.departments)
        \o <<st.terminator>>

Statements ==
    [kind : {"Add"}, names : Lists(MaxNames), departments : Lists(MaxDepartments),
     terminator : PunctuationChars \ {","}]
    \cup [kind : {"Create", "Show"}, names : {EmptyList},
          departments : Lists(MaxNames), terminator : PunctuationChars \ {","}]
    \cup [kind : {"Remove"}, names : {EmptyList} \cup Lists(MaxDepartments),
          departments : Lists(MaxDepartments), terminator : PunctuationChars \ {","}]

\* the items: words, which a space keeps apart, punctuation and a space
WordItems == {"Add", "M", "to", "and"}

Items == WordItems \cup {",", ".", " "}

ItemChars(item) ==
    CASE item = "Add" -> get(KEYWORD_ADD)
      [] item = "to" -> get(LINKER_TO)
      [] item = "and" -> get(LINKER_AND)
      [] OTHER -> <<item>>

RECURSIVE ItemsTextFrom(_, _)
ItemsTextFrom(items, k) ==
    IF k > Len(items) THEN <<>>
    ELSE ItemChars(items[k])
             \o (IF k < Len(items) /\ items[k] \in WordItems /\ items[k + 1] \in WordItems
                 THEN SP ELSE <<>>)
             \o ItemsTextFrom(items, k + 1)

ItemsText(items) == ItemsTextFrom(items, 1)

\* the statements of the source texts drawn statement by statement
StatementPool ==
    {<<"Add", "M", "to", "M", ".">>, <<"Add", "M", ",", "M", "to", "M", "!">>,
     <<"Add", "M">>, <<"Add", "to", ".">>, <<"M", ".">>}

RECURSIVE ProgramTextFrom(_, _)
ProgramTextFrom(sts, k) ==
    IF k > Len(sts) THEN <<>>
    ELSE ItemsText(sts[k]) \o (IF k < Len(sts) THEN SP ELSE <<>>)
             \o ProgramTextFrom(sts, k + 1)

\* the most items of a list text drawn item by item
MaxListItems == 5

\* the longest run of whitespace characters between the two words of a name
MaxGap == 2

\* the items of the list texts: a name, the linker, a reserved word that is
\* no linker of the list, the separator, the terminator and a space
ListWordItems == {"M", "and", "to"}

ListItems == ListWordItems \cup {",", ".", " "}

RECURSIVE ListItemsTextFrom(_, _)
ListItemsTextFrom(items, k) ==
    IF k > Len(items) THEN <<>>
    ELSE ItemChars(items[k])
             \o (IF k < Len(items) /\ items[k] \in ListWordItems
                    /\ items[k + 1] \in ListWordItems
                 THEN SP ELSE <<>>)
             \o ListItemsTextFrom(items, k + 1)

\* the whitespace between the words B and I of the list text "B<gap>I."
Gaps == SeqsUpTo({" ", "\t", "\n"}, MaxGap) \ {<<>>}

Form(family, text, statement, items, statements) ==
    [family |-> family, text |-> text, statement |-> statement,
     items |-> items, statements |-> statements]

CharForms == {Form("chars", s, NoStatement, <<>>, <<>>) : s \in SeqsUpTo(SourceChars, MaxSourceLen)}

StatementForms == {Form("statement", <<>>, st, <<>>, <<>>) : st \in Statements}

ItemForms == {Form("items", <<>>, NoStatement, s, <<>>) : s \in SeqsUpTo(Items, MaxItems)}

ProgramForms ==
    {Form("program", <<>>, NoStatement, <<>>, s)
         : s \in SeqsUpTo(StatementPool, MaxStatements) \ {<<>>}}

\* the most elements of a list of a statement whose terminator is resolved
MaxTermElements == 2

\* the statements whose terminator handle_terminator resolves
TermStatements ==
    [kind : {"Add"}, names : Lists(MaxTermElements),
     departments : Lists(MaxTermElements), terminator : PunctuationChars \ {","}]
    \cup [kind : {"Create", "Show"}, names : {EmptyList},
          departments : Lists(MaxTermElements), terminator : PunctuationChars \ {","}]
    \cup [kind : {"Remove"}, names : Lists(MaxTermElements),
          departments : Lists(MaxTermElements), terminator : PunctuationChars \ {","}]

TermForms == {Form("term", <<>>, st, <<>>, <<>>) : st \in TermStatements}

\* what a statement that no terminator ends stops on: its last word, a space,
\* a separator
Endings == {<<>>, <<" ">>, <<",">>, <<",", " ">>, <<" ", "a", "n", "d">>}

\* Add statements written without their terminator, and how they end
UnterminatedForms ==
    {Form("unterminated", e, st, <<>>, <<>>)
         : st \in {x \in Statements : x.kind = "Add" /\ x.terminator = "."},
           e \in Endings}

MaxLines == 3

\* the lines a stream is made of: blank, ending in a word, in a terminator, in
\* a terminator and whitespace, in a comma, and two without a line terminator
InputLines ==
    {<<"\n">>, <<"M", "\n">>, <<"M", ".", "\n">>, <<"M", ".", " ", "\n">>,
     <<"U5B6B", ",", "\n">>, <<"M">>, <<".">>}

RECURSIVE Concat(_)
Concat(seqs) == IF seqs = <<>> THEN <<>> ELSE Head(seqs) \o Concat(Tail(seqs))

InputForms ==
    {Form("input", Concat(ls), NoStatement, <<>>, <<>>) : ls \in SeqsUpTo(InputLines, MaxLines)}

ListForms == {Form("list", <<>>, NoStatement, s, <<>>) : s \in SeqsUpTo(ListItems, MaxListItems)}

GapForms == {Form("gap", gap, NoStatement, <<>>, <<>>) : gap \in Gaps}

SourceOf(f) ==
    CASE f.family = "chars" -> f.text
      [] f.family = "input" -> f.text
      [] f.family = "list" -> ListItemsTextFrom(f.items, 1)
      [] f.family = "term" -> StatementText(f.statement)
      [] f.family = "gap" -> <<"B">> \o f.text \o <<"I", ".">>
      [] f.family = "unterminated" ->
             LET text == StatementText(f.statement)
             IN  SubSeq(text, 1, Len(text) - 1) \o f.text
      [] f.family = "statement" -> StatementText(f.statement)
      [] f.family = "items" -> ItemsText(f.items)
      [] f.family = "program" -> ProgramTextFrom(f.statements, 1)

-----------------------------------------------------------------------------
(* src/lib.rs: lex_parse, and the state machine that runs it on a source *)

NotLexed == [tag |-> "None", tokens |-> <<>>, error |-> NoToken]

NotParsed == [tag |-> "None", ops |-> <<>>, error |-> NoError, panic |-> ""]

NotRendered == [tag |-> "None", text |-> <<>>, lexed |-> NotLexed, parsed |-> NotParsed]

NotListed == [tag |-> "None"]

NotResolved == [tag |-> "None"]

\* main before its first call of get_input: stdin holds the stream, the
\* buffer is String::new()
NotCalled(stream) ==
    [pc |-> "main", handle |-> stream, buf |-> <<>>, total_read |-> 0, read |-> 0,
     at_end |-> FALSE]

InitWith(forms) ==
    /\ form \in forms
    /\ source = SourceOf(form)
    /\ pc = "start"
    /\ lexed = NotLexed
    /\ parsed = NotParsed
    /\ rendered = NotRendered
    /\ listed = NotListed
    /\ resolved = NotResolved
    /\ input = NotCalled(source)

\* source texts written as statements, items and programs
Init == InitWith(StatementForms \cup ItemForms \cup ProgramForms)

\* source texts written character by character
InitChars == InitWith(CharForms)

\* lex(s)?: an Err ends lex_parse
Lex ==
    /\ pc = "start"
    /\ lexed' = lex(source)
    /\ pc' = IF lexed'.tag = "Ok" THEN "lexed" ELSE "done"
    /\ UNCHANGED <<source, form, parsed, aux>>

\* parse(tokens)?
Parse ==
    /\ pc = "lexed"
    /\ parsed' = parse(lexed.tokens)
    /\ pc' = "done"
    /\ UNCHANGED <<source, form, lexed, aux>>

Next == Lex \/ Parse

\* the one operation of a parse is rendered, and the rendering is run
\* through lex_parse again
Render ==
    /\ pc = "done"
    /\ parsed.tag = "Ok"
    /\ Len(parsed.ops) = 1
    /\ LET text == Display(parsed.ops[1])
           again == lex(text)
       IN  rendered' = [tag |-> "Some", text |-> text, lexed |-> again,
                        parsed |-> IF again.tag = "Ok" THEN parse(again.tokens)
                                   ELSE NotParsed]
    /\ pc' = "rendered"
    /\ UNCHANGED <<source, form, lexed, parsed, listed, resolved, input>>

NextRound == Lex \/ Parse \/ Render

\* the operation token of a list call on a text that is a list and no more
ListOpToken == get_token_at(lexed.tokens, 0)

\* parse_list of mod.rs on the tokens of a list text that "." ends, as the
\* test test_parse_list calls it, and the error handler on its Err
ParseList ==
    /\ pc = "lexed"
    /\ LET r == parse_list(lexed.tokens, <<SEPARATOR>>)
       IN  listed' = [tag |-> "Some", impl |-> "mod", r |-> r,
                      error |-> IF r.tag = "Err"
                                THEN get_list_error_handler(
                                         "Show", ListOpToken, <<SEPARATOR>>,
                                         "department", r.token, r.is_empty)
                                ELSE NoError]
    /\ pc' = "done"
    /\ UNCHANGED <<source, form, lexed, parsed, rendered, resolved, input>>

\* parse_list of util.rs on the same tokens, as the test parse_list_usual
\* calls it, and the error handler on its Err
UtilParseList ==
    /\ pc = "lexed"
    /\ LET r == util_parse_list(lexed.tokens, <<SEPARATOR>>)
       IN  listed' = [tag |-> "Some", impl |-> "util", r |-> r,
                      error |-> IF r.tag = "Err"
                                THEN get_parse_list_error_handler_generator(
                                         "Show", ListOpToken, <<SEPARATOR>>,
                                         "department", r)
                                ELSE NoError]
    /\ pc' = "done"
    /\ UNCHANGED <<source, form, lexed, parsed, rendered, resolved, input>>

NextList == Lex \/ ParseList \/ UtilParseList

\* the operation a sub-parser has built from the lists of the statement,
\* before its terminator is looked at
OperationOf(st, m) ==
    CASE st.kind = "Add" ->
             OperationAdd_new(st.departments.elements, st.names.elements, m)
      [] st.kind = "Create" -> OperationCreate_new(st.departments.elements, m)
      [] st.kind = "Remove" ->
             OperationRemove_new(st.departments.elements, st.names.elements,
                                 m = "FailSilently")
      [] st.kind = "Show" ->
             OperationShow_new(st.departments.elements, m = "FailSilently")

\* the last n tokens of the statement
Trailing(tokens, n) == SubSeq(tokens, Len(tokens) - n + 1, Len(tokens))

\* handle_terminator of util.rs on the trailing token of the statement, or on
\* no token, with the operation built from its lists
HandleTerminator ==
    /\ pc = "lexed"
    /\ \E n \in {0, 1}, m \in Modifier :
           LET op == OperationOf(form.statement, m)
               tokens == Trailing(lexed.tokens, n)
           IN  resolved' = [tag |-> "Handled", op |-> op, tokens |-> tokens,
                            m |-> m,
                            r |-> util_handle_terminator(tokens, op,
                                                         At(lexed.tokens, 0))]
    /\ pc' = "done"
    /\ UNCHANGED <<source, form, lexed, parsed, rendered, listed, input>>

\* Operation::set_modifier on the operation built from the lists
SetModifier ==
    /\ pc = "lexed"
    /\ \E m0 \in Modifier, m \in Modifier :
           LET op == OperationOf(form.statement, m0)
           IN  resolved' = [tag |-> "Set", op |-> op, tokens |-> <<>>, m |-> m,
                            r |-> set_modifier(op, m)]
    /\ pc' = "done"
    /\ UNCHANGED <<source, form, lexed, parsed, rendered, listed, input>>

NextTerm == Lex \/ HandleTerminator \/ SetModifier

\* the modifier the terminator of the statement stands for, where the kind
\* has it
ModifierOf(st) ==
    IF st.terminator = "?" THEN "FailSilently"
    ELSE IF st.terminator = "!" /\ st.kind \in {"Add", "Create"} THEN "Overwrite"
    ELSE "None"

\* the operation of parser/operation.rs with the lists and the modifier of st
FlagOperationOf(st) ==
    LET fail_silently == ModifierOf(st) = "FailSilently"
        overwrite == ModifierOf(st) = "Overwrite"
    IN  CASE st.kind = "Add" ->
                 OperationAdd(st.departments.elements, fail_silently,
                              st.names.elements, overwrite)
          [] st.kind = "Create" ->
                 OperationCreate(st.departments.elements, fail_silently, overwrite)
          [] st.kind = "Remove" ->
                 OperationRemove(st.departments.elements, fail_silently,
                                 st.names.elements)
          [] st.kind = "Show" -> OperationShow(st.departments.elements, fail_silently)

\* format!("{}", op) on an operation of parser/operation.rs, as its test format
Format ==
    /\ pc = "start"
    /\ rendered' = [tag |-> "Some", text |-> Display(FlagOperationOf(form.statement)),
                    lexed |-> NotLexed, parsed |-> NotParsed]
    /\ pc' = "done"
    /\ UNCHANGED <<source, form, lexed, parsed, listed, resolved, input>>

\* format!("{}", op) on an operation of operation.rs, as its test format
FormatModifier ==
    /\ pc = "start"
    /\ rendered' = [tag |-> "Some",
                    text |-> operation_Display(
                                 OperationOf(form.statement, ModifierOf(form.statement))),
                    lexed |-> NotLexed, parsed |-> NotParsed]
    /\ pc' = "formatted"
    /\ UNCHANGED <<source, form, lexed, parsed, listed, resolved, input>>

NextFormat == Format \/ FormatModifier

Spec == Init /\ [][Next]_vars

SpecChars == InitChars /\ [][Next]_vars

\* operations of every kind, list length and modifier, rendered
InitFormat == InitWith(StatementForms)

SpecFormat == InitFormat /\ [][NextFormat]_vars

\* the number of bytes of s in UTF-8
RECURSIVE ByteLen(_)
ByteLen(s) == IF s = <<>> THEN 0 ELSE Utf8Len(Head(s)) + ByteLen(Tail(s))

\* &s[n..], n a byte offset on a char boundary
SliceFromByte(s, n) ==
    LET k == CHOOSE k \in 0..Len(s) : ByteLen(SubSeq(s, 1, k)) = n
    IN  SubSeq(s, k + 1, Len(s))

\* str::trim_end
RECURSIVE trim_end(_)
trim_end(s) ==
    IF s # <<>> /\ s[Len(s)] \in WhitespaceChars THEN trim_end(SubSeq(s, 1, Len(s) - 1))
    ELSE s

\* last_token_value: the value of the last segment, NoValue for None
last_token_value(s) ==
    LET segs == split_word_bounds(s)
    IN  IF segs = <<>> THEN NoValue ELSE get_token_value(segs[Len(segs)])

\* BufRead::read_line: the bytes up to and with the next "\n", or up to the
\* end of the stream; nothing at the end of the stream
read_line(handle) ==
    LET lfs == {i \in 1..Len(handle) : handle[i] = "\n"}
    IN  IF lfs = {} THEN handle
        ELSE SubSeq(handle, 1, CHOOSE i \in lfs : \A j \in lfs : i <= j)

\* main calls get_input: buf.clear(), total_read = 0
GetInput ==
    /\ input.pc = "main"
    /\ input' = [input EXCEPT !.pc = "loop", !.buf = <<>>, !.total_read = 0,
                              !.read = 0, !.at_end = FALSE]
    /\ UNCHANGED <<source, form, pc, lexed, parsed, rendered, listed, resolved>>

\* one turn of the loop of get_input from the state in: read_line, and the
\* break when the line read, its trailing whitespace trimmed, ends in a token
\* that is not a Word
loop_turn(in) ==
    LET line == read_line(in.handle)
        read == ByteLen(line)
        buf == in.buf \o line
        total_read == in.total_read + read
        tail == last_token_value(trim_end(SliceFromByte(buf, total_read - read)))
    IN  [pc |-> IF tail # NoValue /\ tail.type # "Word" THEN "returned" ELSE "loop",
         handle |-> SubSeq(in.handle, Len(line) + 1, Len(in.handle)),
         buf |-> buf, total_read |-> total_read, read |-> read,
         at_end |-> read = 0]

ReadLine ==
    /\ input.pc = "loop"
    /\ input' = loop_turn(input)
    /\ UNCHANGED <<source, form, pc, lexed, parsed, rendered, listed, resolved>>

\* the body of the loop of main after get_input has returned: lex_parse on
\* the buffer, the operations or the error printed, and the next turn
LexParse ==
    /\ input.pc = "returned"
    /\ lexed' = lex(input.buf)
    /\ parsed' = IF lexed'.tag = "Ok" THEN parse(lexed'.tokens) ELSE NotParsed
    /\ input' = [input EXCEPT !.pc = "main"]
    /\ UNCHANGED <<source, form, pc, rendered, listed, resolved>>

NextInput == GetInput \/ ReadLine \/ LexParse

\* the streams main reads from stdin
InitInput == InitWith(InputForms)

SpecInput == InitInput /\ [][NextInput]_vars

\* statements of every kind with every terminator
InitTerm == InitWith(TermForms)

\* lex, and then the resolution of the terminator
SpecTerm == InitTerm /\ [][NextTerm]_vars

\* Add statements that no terminator ends
InitUnterminated == InitWith(UnterminatedForms)

SpecUnterminated == InitUnterminated /\ [][Next]_vars

\* list texts, drawn item by item or as two words with a gap
InitList == InitWith(ListForms \cup GapForms)

\* lex, and then one list call
SpecList == InitList /\ [][NextList]_vars

\* lex_parse, and then the round trip through the rendering
SpecRound == Init /\ [][NextRound]_vars

-----------------------------------------------------------------------------
(* What the claims speak of *)

Done == pc = "done"

IsStatement(kind) == form.family = "statement" /\ form.statement.kind = kind

\* the modifier a terminator selects, as the two flags of an operation
Overwrites == form.statement.terminator = "!"

FailsSilently == form.statement.terminator = "?"

\* the position in source of the k-th of segs
RECURSIVE SegStart(_, _)
SegStart(segs, k) == IF k = 1 THEN 1 ELSE SegStart(segs, k - 1) + Len(segs[k - 1])

\* the line terminators before position pos of source
TerminatorsBefore(pos) == Cardinality({i \in 1..(pos - 1) : source[i] = "\n"})

\* the first position of the physical line that holds position pos
LineStart(pos) ==
    LET lfs == {i \in 1..(pos - 1) : source[i] = "\n"}
    IN  IF lfs = {} THEN 1 ELSE 1 + (CHOOSE i \in lfs : \A j \in lfs : j <= i)

\* the last position of the physical line that holds position pos
LineEnd(pos) ==
    LET lfs == {i \in pos..Len(source) : source[i] = "\n"}
    IN  IF lfs = {} THEN Len(source) ELSE CHOOSE i \in lfs : \A j \in lfs : i <= j

\* the grapheme clusters of s: every character starts one, but a line feed
\* after a carriage return and a choseong after a choseong
Clusters(s) ==
    Cardinality({i \in 1..Len(s) :
                    \/ i = 1
                    \/ ~ \/ s[i - 1] = "\r" /\ s[i] = "\n"
                         \/ s[i - 1] = "U1100" /\ s[i] = "U1100"})

\* the bytes of s in UTF-8
RECURSIVE Bytes(_)
Bytes(s) == IF s = <<>> THEN 0 ELSE Utf8Len(Head(s)) + Bytes(Tail(s))

\* the clusters of the segments before the k-th that lie on its line
RECURSIVE ClustersBefore(_, _, _)
ClustersBefore(segs, k, j) ==
    IF j >= k THEN 0
    ELSE (IF SegStart(segs, j) >= LineStart(SegStart(segs, k))
          THEN Clusters(segs[j]) ELSE 0)
             + ClustersBefore(segs, k, j + 1)

\* a segment that is neither whitespace, nor one punctuation mark, nor letters
BadSegment(seg) ==
    /\ \E i \in 1..Len(seg) : seg[i] \notin WhitespaceChars
    /\ ~(Len(seg) = 1 /\ seg[1] \in PunctuationChars)
    /\ \E i \in 1..Len(seg) : ~IsLetterChar(seg[i])

BadSegments(segs) == {k \in 1..Len(segs) : BadSegment(segs[k])}

FirstOf(S) == CHOOSE k \in S : \A j \in S : k <= j

\* the tokens lex made known, each with the index of its segment: all of
\* them, or the one inside the error
KnownTokens(segs) ==
    IF lexed.tag = "Ok"
    THEN {<<k, lexed.tokens[k]>> : k \in 1..Len(lexed.tokens)}
    ELSE {<<FirstOf(BadSegments(segs)), lexed.error>>}

-----------------------------------------------------------------------------
(* C1..C5: the parser, under Spec *)

\* C1: an Add statement with well-formed lists, ended by "." or "!", parses
\* to exactly one Add operation with the names and the departments in source
\* order, and overwrite set exactly for "!"
C1_AddParsed ==
    (Done /\ IsStatement("Add") /\ ~FailsSilently)
        => /\ lexed.tag = "Ok"
           /\ parsed.tag = "Ok"
           /\ Len(parsed.ops) = 1
           /\ parsed.ops[1].kind = "Add"
           /\ parsed.ops[1].names = Some(form.statement.names.elements)
           /\ parsed.ops[1].departments = Some(form.statement.departments.elements)
           /\ parsed.ops[1].overwrite = Some(Overwrites)
           /\ parsed.ops[1].fail_silently = Some(FALSE)

\* "Add M, B I and M to M and B I!" has been parsed
C1_Witness ==
    /\ Done /\ IsStatement("Add") /\ Overwrites
    /\ form.statement.names = [elements |-> <<<<"M">>, <<"B", " ", "I">>, <<"M">>>>,
                               seps |-> <<",", "and">>]
    /\ form.statement.departments = [elements |-> <<<<"M">>, <<"B", " ", "I">>>>,
                                     seps |-> <<"and">>]
    /\ parsed.tag = "Ok"

\* C2: a Create or Show statement with a terminator its kind allows parses to
\* exactly one operation of that kind, with the departments in source order
\* and the modifier the terminator selects
C2_CreateShowParsed ==
    /\ (Done /\ IsStatement("Create"))
           => parsed = ParseOk(<<OperationCreate(form.statement.departments.elements,
                                                 FailsSilently, Overwrites)>>)
    /\ (Done /\ IsStatement("Show") /\ ~Overwrites)
           => parsed = ParseOk(<<OperationShow(form.statement.departments.elements,
                                               FailsSilently)>>)

\* C3: a Remove statement parses to one Remove operation: with "from", the
\* first list is the names and the second the departments; without it, the
\* only list is the departments and there are no names
C3_RemoveParsed ==
    (Done /\ IsStatement("Remove") /\ ~Overwrites)
        => parsed = ParseOk(<<OperationRemove(form.statement.departments.elements,
                                              FailsSilently,
                                              form.statement.names.elements)>>)

\* C4: parse of tokens that lex produced ends in Ok or Err, never in a panic
C4_ParseTotal == (Done /\ lexed.tag = "Ok") => parsed.tag \in {"Ok", "Err"}

\* the statements of StatementPool that the grammar accepts
ValidStatements ==
    {<<"Add", "M", "to", "M", ".">>, <<"Add", "M", ",", "M", "to", "M", "!">>}

InvalidAt == {k \in 1..Len(form.statements) : form.statements[k] \notin ValidStatements}

\* C5: a source of k statements parses to Ok with k operations when every
\* statement is valid, and else to the Err of the earliest invalid statement,
\* anchored on that statement's first token
C5_AllOrFirstError ==
    (Done /\ form.family = "program")
        => IF InvalidAt = {}
           THEN parsed.tag = "Ok" /\ Len(parsed.ops) = Len(form.statements)
           ELSE /\ parsed.tag = "Err"
                /\ parsed.error.operation_token.column_number
                       = 1 + Len(ProgramTextFrom(SubSeq(form.statements, 1,
                                                        FirstOf(InvalidAt) - 1), 1))
                             + (IF FirstOf(InvalidAt) > 1 THEN 1 ELSE 0)

-----------------------------------------------------------------------------
(* C6..C10: the lexer, under SpecChars *)

\* C6: lex fails exactly when some segment of the source is neither
\* whitespace, nor one of , . ! ?, nor letters only; the error holds the first
\* such segment with its own line and column and no token is returned; else
\* lex returns one token per segment
C6_LexErrIffBadSegment ==
    pc # "start"
        => LET segs == split_word_bounds(source)
               bad == BadSegments(segs)
           IN  IF bad = {}
               THEN /\ lexed.tag = "Ok"
                    /\ Len(lexed.tokens) = Len(segs)
                    /\ \A k \in 1..Len(segs) :
                           lexed.tokens[k].value.type # "Unknown"
                    /\ \A k \in 1..Len(segs) :
                           lexed.tokens[k].value.type # "Whitespace"
                               => lexed.tokens[k].value.s = segs[k]
               ELSE /\ lexed.tag = "Err"
                    /\ lexed.tokens = <<>>
                    /\ lexed.error.value = Unknown(segs[FirstOf(bad)])
                    /\ lexed.error.line_number
                           = 1 + TerminatorsBefore(SegStart(segs, FirstOf(bad)))
                    /\ lexed.error.column_number
                           = 1 + Clusters(SubSeq(source,
                                                 LineStart(SegStart(segs, FirstOf(bad))),
                                                 SegStart(segs, FirstOf(bad)) - 1))

\* lex failed on a segment that is not the first of the source
C6_Witness ==
    /\ pc = "done" /\ lexed.tag = "Err"
    /\ lexed.error.value = Unknown(<<"a", "1">>)
    /\ lexed.error.line_number = 2
    /\ lexed.error.column_number = 2

\* C7: the column of every token, and of the token inside an error, is 1 plus
\* the grapheme clusters of the segments before it on its line
C7_ColumnsCountGraphemes ==
    pc # "start"
        => LET segs == split_word_bounds(source)
           IN  \A kt \in KnownTokens(segs) :
                   /\ kt[2].column_number = 1 + ClustersBefore(segs, kt[1], 1)
                   /\ SegStart(segs, kt[1]) = LineStart(SegStart(segs, kt[1]))
                          => kt[2].column_number = 1

\* a token whose column is neither 1 plus the chars nor 1 plus the bytes
\* before it: two choseong, one cluster, and then a space at column 2
C7_Witness ==
    /\ pc # "start" /\ lexed.tag = "Ok"
    /\ \E k \in 1..Len(lexed.tokens) :
           LET before == SubSeq(source, 1, SegStart(split_word_bounds(source), k) - 1)
           IN  /\ lexed.tokens[k].line_number = 1
               /\ lexed.tokens[k].column_number = 2
               /\ Len(before) = 2
               /\ Bytes(before) = 6

\* C8: the line number of every token is 1 plus the line terminators before
\* its segment, its line is the whole physical line with the terminator, and
\* a terminator is a Whitespace token of the line it ends
C8_LinesCountTerminators ==
    pc # "start"
        => LET segs == split_word_bounds(source)
           IN  \A kt \in KnownTokens(segs) :
                   LET pos == SegStart(segs, kt[1])
                   IN  /\ kt[2].line_number = 1 + TerminatorsBefore(pos)
                       /\ kt[2].line = SubSeq(source, LineStart(pos), LineEnd(pos))
                       /\ segs[kt[1]][Len(segs[kt[1]])] = "\n"
                              => kt[2].value = Whitespace

\* " \n\r\n" has been lexed: "\n" is on line 1 at column 2, "\r\n" is one
\* token on line 2 at column 1
C8_Witness ==
    /\ pc # "start"
    /\ source = <<" ", "\n", "\r", "\n">>
    /\ lexed.tag = "Ok" /\ Len(lexed.tokens) = 3
    /\ lexed.tokens[2] = Token(Whitespace, <<" ", "\n">>, 1, 2)
    /\ lexed.tokens[3] = Token(Whitespace, <<"\r", "\n">>, 2, 1)

WhitespaceOnly == \A i \in 1..Len(source) : source[i] \in WhitespaceChars

\* C9 as stated: a source of whitespace only lexes to no token at all and
\* parses to no operation
C9_WhitespaceLexesToNothing ==
    (Done /\ WhitespaceOnly) => lexed = LexOk(<<>>) /\ parsed = ParseOk(<<>>)

\* C9 amended: a source of whitespace only lexes to Whitespace tokens, one per
\* segment and none only for the empty source, and parses to no operation
C9_WhitespaceParsesToNothing ==
    (pc # "start" /\ WhitespaceOnly)
        => /\ lexed.tag = "Ok"
           /\ Len(lexed.tokens) = Len(split_word_bounds(source))
           /\ \A k \in 1..Len(lexed.tokens) : lexed.tokens[k].value = Whitespace
           /\ (lexed.tokens = <<>>) <=> (source = <<>>)
           /\ (pc = "lexed" \/ parsed = ParseOk(<<>>))

\* " \t\r\n" has been lexed to three Whitespace tokens and parsed
C9_Witness ==
    /\ Done /\ WhitespaceOnly
    /\ source = <<" ", "\t", "\r", "\n">>
    /\ Len(lexed.tokens) = 3
    /\ parsed = ParseOk(<<>>)

LettersAndMarksOnly ==
    \A i \in 1..Len(source) : IsLetterChar(source[i]) \/ source[i] \in PunctuationChars

\* C10: a source of letters and the marks , . ! ? only lexes to Ok, into Word
\* and Punctuation tokens, each mark a Punctuation token of its own
C10_LettersAndPunctuationLex ==
    (pc # "start" /\ LettersAndMarksOnly)
        => /\ lexed.tag = "Ok"
           /\ \A k \in 1..Len(lexed.tokens) :
                  lexed.tokens[k].value.type \in {"Word", "Punctuation"}
           /\ Cardinality({k \in 1..Len(lexed.tokens) :
                              lexed.tokens[k].value.type = "Punctuation"})
                  = Cardinality({i \in 1..Len(source) : source[i] \in PunctuationChars})

-----------------------------------------------------------------------------
(* C11: the round trip through the rendering, under SpecRound *)

\* C11: the rendering of the one operation a statement parses to lexes
\* without error and parses to that one operation again
C11_RoundTrip ==
    (pc = "rendered" /\ form.family = "statement")
        => /\ rendered.lexed.tag = "Ok"
           /\ rendered.parsed = ParseOk(parsed.ops)

-----------------------------------------------------------------------------
(* C12..C14: one list call, under SpecList *)

\* a list call has returned its elements
Listed == pc = "done" /\ listed.tag = "Some" /\ listed.r.tag = "Ok"

\* e has a space at its start or its end, or two spaces in a row
BadlySpaced(e) ==
    \/ e[1] = " "
    \/ e[Len(e)] = " "
    \/ \E i \in 1..(Len(e) - 1) : e[i] = " " /\ e[i + 1] = " "

\* C12: the words of an element are one space apart and no space goes before
\* or after them, whatever whitespace the source has between the words
C12_OneSpaceBetweenWords ==
    Listed => /\ \A k \in 1..Len(listed.r.elements) : ~BadlySpaced(listed.r.elements[k])
              /\ form.family = "gap" => listed.r.elements = <<<<"B", " ", "I">>>>
\* the items of a list text that parse_list looks at: those before the first
\* ".", the spaces left out
RECURSIVE Seen(_)
Seen(items) ==
    IF items = <<>> \/ Head(items) = "." THEN <<>>
    ELSE IF Head(items) = " " THEN Seen(Tail(items))
    ELSE <<Head(items)>> \o Seen(Tail(items))

\* two separators with no word between them
ConsecutiveSeparators(items) ==
    \E i \in 1..(Len(items) - 1) :
        items[i] \in {",", "and"} /\ items[i + 1] \in {",", "and"}

\* C13: a list text with two separators and no word between them makes
\* parse_list return an error
C13_ConsecutiveSeparatorsFail ==
    (pc = "done" /\ listed.tag = "Some" /\ form.family = "list"
        /\ ConsecutiveSeparators(Seen(form.items)))
        => listed.r.tag = "Err"

\* the words of the element e, which spaces keep apart
RECURSIVE WordsOf(_, _)
WordsOf(e, word) ==
    IF e = <<>> THEN (IF word = <<>> THEN {} ELSE {word})
    ELSE IF Head(e) = " "
    THEN (IF word = <<>> THEN {} ELSE {word}) \cup WordsOf(Tail(e), <<>>)
    ELSE WordsOf(Tail(e), Append(word, Head(e)))

ReservedWords == {get(RESERVED[k]) : k \in 1..Len(RESERVED)}

\* C14: no element a list call returns is a reserved word or has a reserved
\* word among its words
C14_NoReservedElement ==
    Listed => \A k \in 1..Len(listed.r.elements) :
                  WordsOf(listed.r.elements[k], <<>>) \cap ReservedWords = {}
-----------------------------------------------------------------------------
(* C15: the empty list, under Spec; C16: the missing terminator, under     *)
(* SpecUnterminated                                                        *)

\* the items of a source text, the spaces left out
RECURSIVE NonSpace(_)
NonSpace(items) ==
    IF items = <<>> THEN <<>>
    ELSE IF Head(items) = " " THEN NonSpace(Tail(items))
    ELSE <<Head(items)>> \o NonSpace(Tail(items))

\* an Add whose names list meets "to", "." or the end with no element
EmptyNames(nsp) ==
    /\ Len(nsp) >= 1 /\ nsp[1] = "Add"
    /\ Len(nsp) = 1 \/ nsp[2] \in {"to", "."}

\* an Add with one name whose departments list meets "." or the end with no
\* element
EmptyDepartments(nsp) ==
    /\ Len(nsp) >= 3 /\ SubSeq(nsp, 1, 3) = <<"Add", "M", "to">>
    /\ Len(nsp) = 3 \/ nsp[4] = "."

EmptyListError(name) ==
    /\ parsed.tag = "Err"
    /\ parsed.error.details.text
           = "You must specify at least one {} before list terminator {}"
    /\ parsed.error.details.name = name

\* C15: a list that meets its terminator, an operation terminator or the end
\* of the tokens with no element fails the statement with the empty-list
\* error, and no operation has an empty list
C15_EmptyListFails ==
    (Done /\ lexed.tag = "Ok")
        => /\ (form.family = "items" /\ EmptyNames(NonSpace(form.items)))
                  => EmptyListError("name")
           /\ (form.family = "items" /\ EmptyDepartments(NonSpace(form.items)))
                  => EmptyListError("department")
           /\ \A k \in 1..Len(parsed.ops) :
                  /\ parsed.ops[k].departments.v # <<>>
                  /\ parsed.ops[k].names.v # <<>>

\* C16: an Add statement with well-formed lists and no terminator fails with
\* the error of the operation not terminated: no unexpected token, and for
\* expected tokens the terminators of an Add
C16_NotTerminated ==
    (Done /\ form.family = "unterminated")
        => /\ parsed.tag = "Err"
           /\ parsed.error.details.text = "You didn't terminate your operation!"
           /\ parsed.error.unexpected_token = NoToken
           /\ {parsed.error.expected_tokens[k]
                   : k \in 1..Len(parsed.error.expected_tokens)}
                  = {SEPARATOR, SEPARATOR_OVERWRITE, SEPARATOR_FAIL_SILENTLY}
-----------------------------------------------------------------------------
(* C17, C18: the terminator and the modifier, under SpecTerm *)

\* handle_terminator has looked at the one trailing token of the statement
Handled == pc = "done" /\ resolved.tag = "Handled" /\ Len(resolved.tokens) = 1

\* C17: "!" gives Overwrite, "?" FailSilently and "." leaves the modifier as
\* it is; "!" on a Show or Remove is the invalid-modifier error with the "!"
\* token unexpected and "." and "?" expected, and set_modifier(Overwrite) on a
\* Remove or Show is None
C17_TerminatorResolved ==
    /\ Handled
           => LET t == get(resolved.tokens[1].value)
                  op == resolved.op
                  r == resolved.r
              IN  /\ (t = <<"!">> /\ op.kind \in {"Create", "Add"})
                         => r = OpOk([op EXCEPT !.modifier = "Overwrite"])
                  /\ t = <<"?">> => r = OpOk([op EXCEPT !.modifier = "FailSilently"])
                  /\ t = <<".">> => r = OpOk(op)
                  /\ (t = <<"!">> /\ op.kind \in {"Show", "Remove"})
                         => /\ r.tag = "Err"
                            /\ r.error.unexpected_token = resolved.tokens[1]
                            /\ r.error.expected_tokens
                                   = <<SEPARATOR, SEPARATOR_FAIL_SILENTLY>>
                            /\ r.error.details.text
                                   = "{} is not a valid modifier for the operation"
    /\ (pc = "done" /\ resolved.tag = "Set" /\ resolved.m = "Overwrite"
           /\ resolved.op.kind \in {"Remove", "Show"})
           => ~resolved.r.some

\* "Show M!" has been answered with the error, and set_modifier(Overwrite) on
\* a Remove with None
C17_Witness ==
    \/ /\ Handled
       /\ form.statement.kind = "Show" /\ form.statement.terminator = "!"
       /\ resolved.r.tag = "Err"
    \/ /\ pc = "done" /\ resolved.tag = "Set" /\ resolved.m = "Overwrite"
       /\ resolved.op.kind = "Remove" /\ ~resolved.r.some

\* C18 as stated: no Add operation, constructed, set or resolved, has the
\* modifier FailSilently
C18_AddNeverFailSilently ==
    (pc = "done" /\ resolved.tag = "Handled" /\ resolved.op.kind = "Add"
        /\ resolved.m = "None" /\ resolved.r.tag = "Ok")
        => resolved.r.op.modifier # "FailSilently"

\* C18: an Add takes every modifier: set_modifier on an Add returns the Add
\* with that modifier, and an Add statement that "?" ends resolves to an Add
\* with FailSilently
C18_AddTakesEveryModifier ==
    /\ (pc = "done" /\ resolved.tag = "Set" /\ resolved.op.kind = "Add")
           => /\ resolved.r.some
              /\ resolved.r.v = OperationAdd_new(resolved.op.departments,
                                                 resolved.op.names, resolved.m)
    /\ (Handled /\ resolved.op.kind = "Add" /\ form.statement.terminator = "?")
           => /\ resolved.r.tag = "Ok"
              /\ resolved.r.op.kind = "Add"
              /\ resolved.r.op.modifier = "FailSilently"

\* "Add ... ?" has resolved to an Add with FailSilently
C18_Witness ==
    /\ Handled /\ resolved.op.kind = "Add" /\ resolved.m = "None"
    /\ form.statement.terminator = "?"
    /\ resolved.r.tag = "Ok" /\ resolved.r.op.modifier = "FailSilently"
-----------------------------------------------------------------------------
(* C19, C20: what parse returns, under Spec *)

\* C19: every operation of a successful parse is of a known kind, has a
\* department, an Add has a name, and every element has a word
C19_OperationsNotEmpty ==
    (Done /\ parsed.tag = "Ok")
        => \A k \in 1..Len(parsed.ops) :
               LET op == parsed.ops[k]
               IN  /\ op.kind # "Unknown"
                   /\ op.departments.some /\ op.departments.v # <<>>
                   /\ op.kind = "Add" => (op.names.some /\ op.names.v # <<>>)
                   /\ \A i \in 1..Len(op.departments.v) :
                          WordsOf(op.departments.v[i], <<>>) # {}
                   /\ op.names.some
                          => \A i \in 1..Len(op.names.v) :
                                 WordsOf(op.names.v[i], <<>>) # {}

\* a source of two statements has parsed to two operations
C19_Witness ==
    /\ Done /\ form.family = "program" /\ Len(form.statements) = 2
    /\ parsed.tag = "Ok" /\ Len(parsed.ops) = 2

\* the index of the first token from i on that is at the top level and is no
\* whitespace and no keyword, or Len(tokens) if there is none: a keyword opens
\* a statement that goes up to its terminator
RECURSIVE FirstStray(_, _, _)
FirstStray(tokens, i, inside) ==
    IF i >= Len(tokens) THEN Len(tokens)
    ELSE LET v == At(tokens, i).value
         IN  IF inside
             THEN FirstStray(tokens, i + 1, ~contains(TERMINATORS, v))
             ELSE IF v = Whitespace THEN FirstStray(tokens, i + 1, FALSE)
             ELSE IF contains(KEYWORDS, v) THEN FirstStray(tokens, i + 1, TRUE)
             ELSE i

MustInputAnOperation(t) ==
    Error("Unknown", t, t, KEYWORDS,
          [text |-> "You must input an operation!", name |-> "", value |-> NoValue])

\* the position of token t in the source, as a pair
Position(t) == <<t.line_number, t.column_number>>

Before(p, q) == p[1] < q[1] \/ (p[1] = q[1] /\ p[2] < q[2])

\* C20 for the tokens that are no keyword: unless an earlier statement has
\* failed, parse fails on the first such token at the top level, with that
\* token as anchor and as unexpected token and the four keywords expected
C20_StrayTokenFails ==
    (Done /\ lexed.tag = "Ok" /\ FirstStray(lexed.tokens, 0, FALSE) < Len(lexed.tokens))
        => LET t == At(lexed.tokens, FirstStray(lexed.tokens, 0, FALSE))
           IN  \/ parsed = ParseErr(MustInputAnOperation(t))
               \/ /\ parsed.tag = "Err"
                  /\ Before(Position(parsed.error.operation_token), Position(t))

\* C20: the first token at the top level that is no whitespace and no keyword
\* fails the parse with "You must input an operation!", and no keyword does
C20_TopLevel ==
    /\ C20_StrayTokenFails
    /\ (Done /\ parsed.tag = "Err"
           /\ parsed.error.details.text = "You must input an operation!")
           => ~contains(KEYWORDS, parsed.error.unexpected_token.value)
-----------------------------------------------------------------------------
(* C21, C23: what a list call returns, under SpecList *)

\* the list starts with a name, and the last thing before the terminator, or
\* before the end, is a separator
TrailingSeparator(items) ==
    /\ Seen(items) # <<>>
    /\ Head(Seen(items)) = "M"
    /\ Seen(items)[Len(Seen(items))] \in {",", "and"}

\* C21: a list text whose last separator has no element after it makes
\* parse_list return an error, and no elements
C21_TrailingSeparatorFails ==
    (pc = "done" /\ listed.tag = "Some" /\ form.family = "list"
        /\ TrailingSeparator(form.items))
        => listed.r.tag = "Err"
-----------------------------------------------------------------------------
(* C22: the rendering, under SpecFormat *)

\* every element of elems from the k-th on, each followed by ", "
RECURSIVE EachWithComma(_, _)
EachWithComma(elems, k) ==
    IF k > Len(elems) THEN <<>>
    ELSE elems[k] \o <<",", " ">> \o EachWithComma(elems, k + 1)

\* "", "a", "a and b", "a, b, and c"
ListRendering(elems) ==
    CASE Len(elems) = 0 -> <<>>
      [] Len(elems) = 1 -> elems[1]
      [] Len(elems) = 2 -> elems[1] \o <<" ", "a", "n", "d", " ">> \o elems[2]
      [] OTHER -> EachWithComma(SubSeq(elems, 1, Len(elems) - 1), 1)
                      \o <<"a", "n", "d", " ">> \o elems[Len(elems)]

\* <Keyword> [<names> to|from] <departments>[ (fail silently|overwrite if existing)]
StatementRendering(st) ==
    get(CASE st.kind = "Add" -> KEYWORD_ADD
          [] st.kind = "Create" -> KEYWORD_CREATE
          [] st.kind = "Remove" -> KEYWORD_REMOVE
          [] st.kind = "Show" -> KEYWORD_SHOW)
        \o <<" ">>
        \o (IF st.names.elements = <<>> THEN <<>>
            ELSE ListRendering(st.names.elements) \o <<" ">>
                     \o get(IF st.kind = "Add" THEN LINKER_TO ELSE LINKER_FROM)
                     \o <<" ">>)
        \o ListRendering(st.departments.elements)
        \o (CASE ModifierOf(st) = "FailSilently" ->
                     <<" ", "(", "f", "a", "i", "l", " ",
                       "s", "i", "l", "e", "n", "t", "l", "y", ")">>
              [] ModifierOf(st) = "Overwrite" ->
                     <<" ", "(", "o", "v", "e", "r", "w", "r", "i", "t", "e", " ",
                       "i", "f", " ", "e", "x", "i", "s", "t", "i", "n", "g", ")">>
              [] OTHER -> <<>>)

\* C22: an operation renders as its keyword, its names with "to" or "from",
\* its departments and its modifier in parentheses, each list as "a",
\* "a and b" or "a, b, and c"; a Remove with no names as Remove <departments>
C22_Rendering ==
    pc \in {"done", "formatted"} => rendered.text = StatementRendering(form.statement)

\* an Add with three names and a modifier, or a Remove with no names, has
\* been rendered
C22_Witness ==
    /\ pc \in {"done", "formatted"}
    /\ \/ /\ form.statement.kind = "Add" /\ Len(form.statement.names.elements) = 3
          /\ form.statement.terminator = "!"
       \/ /\ form.statement.kind = "Remove" /\ form.statement.names.elements = <<>>

\* a list text of names, commas, spaces and "." only
PlainList(items) == \A k \in 1..Len(items) : items[k] \in {"M", ",", " ", "."}

\* the offsets below n at which tokens has a token of terminators
TerminatorOffsets(tokens, terminators, n) ==
    {k \in 0..(n - 1) : k < Len(tokens) /\ contains(terminators, At(tokens, k).value)}

\* C23: the offset n that parse_list returns with Ok is at most the number
\* of tokens, and is either that number or the offset of the first terminator
C23_OffsetWithinTokens ==
    (Listed /\ PlainList(form.items)) =>
        /\ listed.r.i <= Len(lexed.tokens)
        /\ TerminatorOffsets(lexed.tokens, <<SEPARATOR>>, listed.r.i) = {}
        /\ \/ listed.r.i = Len(lexed.tokens)
           \/ contains(<<SEPARATOR>>, At(lexed.tokens, listed.r.i).value)
-----------------------------------------------------------------------------
(* C24: the slice handle_terminator is given, under Spec *)

\* C24: parse never ends in the branch of handle_terminator for a slice of
\* more than one token
C24_TerminatorSliceAtMostOne ==
    pc = "done"
        => parsed.panic # "Invalid input for handle_terminator, expected 1 or no tokens"

\* a program of two statements has been parsed: handle_terminator was given
\* the one terminator of each
C24_Witness ==
    /\ pc = "done"
    /\ form.family = "program"
    /\ parsed.tag = "Ok"
    /\ Len(parsed.ops) = 2
-----------------------------------------------------------------------------
(* C25: the read loop, under SpecInput *)

\* get_input is in its loop, the reader has reached the end of the input
\* (a read of 0 bytes), and the next turn of the loop leaves every variable
\* of get_input as it is: the loop has no way out
Spins == input.pc = "loop" /\ input.at_end /\ loop_turn(input) = input

\* C25: get_input returns on every finite stream: it never comes, at the end
\* of the input, to a turn of its loop that changes nothing
C25_ReturnsAtEndOfInput == ~Spins

=============================================================================
